---- MODULE Spec2Model ----
(***************************************************************************)
(* Model of hdPrman's material conversion (material.cpp): the recursive    *)
(* conversion of an HdMaterialNetwork2 into Riley shading nodes            *)
(* (_ConvertNodes), the per-terminal commit to Riley                        *)
(* (_ConvertHdMaterialNetwork2ToRman) and the HdPrmanMaterial life cycle   *)
(* (Sync, Finalize, _ResetMaterial).                                       *)
(***************************************************************************)
EXTENDS Integers, Sequences, FiniteSets, TLC

(***************************************************************************)
(* Bounds of the model.                                                    *)
(***************************************************************************)
\* At most this many authored features (connections, odd node types) in a
\* network handed to the converter.
MaxEdits == 3
\* Riley hands out at most this many fresh ids in one behaviour.
MaxIds == 2

(***************************************************************************)
(* State.                                                                  *)
(***************************************************************************)
VARIABLES
  materialNetwork,  \* HdPrmanMaterial::_materialNetwork, the network being converted
  materialId,       \* HdPrmanMaterial::_materialId
  displacementId,   \* HdPrmanMaterial::_displacementId
  dirtyBits,        \* *dirtyBits as the last Sync left it
  riley,            \* the renderer: [nextId, materials, displacements], the ids
                    \* handed out so far and the live ones
  calls,            \* the Riley calls of the handler that ran last, in order
  errors,           \* the TF_RUNTIME_ERRORs of that handler, in order
  last,             \* that handler, its inputs and the state it started from
  rootPath,         \* the node path a caller of the converter converts from
  nodes,            \* the caller's std::vector<riley::ShadingNode>
  flag,             \* what the last conversion call returned
  visited,          \* the visited set as the last conversion call left it
  pc,               \* "idle"; "converted": a conversion call has returned;
                    \* "returned": Sync or Finalize has returned;
                    \* "classified": a classification has been made
  classified,       \* the last classification: [context, nodeTypeId, type]
  history,          \* [result, ok] of the earlier conversion calls
  isOitEnabled,     \* HdxOitVolumeRenderTask::_isOitEnabled
  gl,               \* the GL context: capability -> enabled
  renderPassState,  \* the fields of the render pass state in the task context
  executed          \* the last HdxOitVolumeRenderTask::Execute: its inputs, the
                    \* GL state it started from and what it did

convVars == <<rootPath, nodes, flag, visited, history, classified>>
syncVars == <<materialId, displacementId, dirtyBits, riley, calls, errors, last>>
oitVars == <<isOitEnabled, gl, renderPassState, executed>>
vars == <<materialNetwork, pc, convVars, syncVars, oitVars>>

(***************************************************************************)
(* Tokens.                                                                 *)
(***************************************************************************)
\* SdfPath values: three node paths that may be in network.nodes and one
\* path that never is (the target of a dangling connection).
NodePaths == {"/A", "/B", "/C"}
MissingPath == "/X"
Paths == NodePaths \cup {MissingPath}

\* std::map iterates its keys in ascending order; for TfToken keys that is
\* the order of the strings.  The sequences below list the keys ascending.
InputOrder ==
  <<"inA", "inB", "inExtra", "inInt", "inNoType", "inNrm", "inPt", "inStr", "inStruct",
    "inVec", "inVstruct">>
TerminalOrder == <<"displacement", "surface", "volume">>

\* riley::MaterialId::InvalidId() / riley::DisplacementId::InvalidId()
InvalidId == 0

(***************************************************************************)
(* The shader registry (SdrRegistry), read-only.  One descriptor per       *)
(* shader identifier; an identifier outside the domain has no entry.       *)
(***************************************************************************)
NoOptions == << >>

StdInputs ==
  [n \in {"inA", "inB", "inInt", "inNoType", "inNrm", "inPt", "inStr", "inStruct",
          "inVec", "inVstruct"} |->
     CASE n = "inA"       -> [type |-> "color",   implName |-> "inA",      options |-> NoOptions]
       [] n = "inB"       -> [type |-> "float",   implName |-> "inB_impl", options |-> NoOptions]
       [] n = "inInt"     -> [type |-> "int",     implName |-> "inInt",
                              options |-> << <<"low", "0">>, <<"med", "1">>, <<"high", "2">> >>]
       [] n = "inNoType"  -> [type |-> "",        implName |-> "inNoType", options |-> NoOptions]
       [] n = "inNrm"     -> [type |-> "normal",  implName |-> "inNrm",    options |-> NoOptions]
       [] n = "inPt"      -> [type |-> "point",   implName |-> "inPt",     options |-> NoOptions]
       [] n = "inStr"     -> [type |-> "string",  implName |-> "inStr",    options |-> NoOptions]
       [] n = "inVec"     -> [type |-> "vector",  implName |-> "inVec",    options |-> NoOptions]
       [] n = "inStruct"  -> [type |-> "struct",  implName |-> "inStruct", options |-> NoOptions]
       [] n = "inVstruct" -> [type |-> "vstruct", implName |-> "inVstruct", options |-> NoOptions]]

StdOutputs == [n \in {"out"} |-> [implName |-> "out_impl"]]

SdrEntry(name, context, uri) ==
  [name |-> name, context |-> context, uri |-> uri, implName |-> name,
   inputs |-> StdInputs, outputs |-> StdOutputs]

ShaderIds ==
  {"PxrSurface", "UsdPreviewSurface", "PxrVolume", "PxrTexture", "PxrDisplace",
   "PxrDisplaceCpp", "PxrDomeLight", "PxrBarnLightFilter", "Gadget", "NoImpl",
   "NoImplLight"}

SdrRegistry ==
  [id \in ShaderIds |->
     CASE id = "PxrSurface"         -> SdrEntry(id, "bxdf", "/lib/PxrSurface.so")
       [] id = "UsdPreviewSurface"  -> SdrEntry(id, "surface", "/lib/UsdPreviewSurface.oso")
       [] id = "PxrVolume"          -> SdrEntry(id, "volume", "/lib/PxrVolume.so")
       [] id = "PxrTexture"         -> SdrEntry(id, "pattern", "/lib/PxrTexture.oso")
       [] id = "PxrDisplace"        -> SdrEntry(id, "OSL", "/lib/PxrDisplace.oso")
       [] id = "PxrDisplaceCpp"     -> SdrEntry(id, "displacement", "/lib/PxrDisplaceCpp.so")
       [] id = "PxrDomeLight"       -> SdrEntry(id, "light", "/lib/PxrDomeLight.so")
       [] id = "PxrBarnLightFilter" -> SdrEntry(id, "lightFilter", "/lib/PxrBarnLightFilter.so")
       [] id = "Gadget"             -> SdrEntry(id, "gadget", "/lib/Gadget.so")
       [] id = "NoImpl"             -> SdrEntry(id, "pattern", "")
       [] id = "NoImplLight"        -> SdrEntry(id, "light", "")]

\* An identifier no source type of the registry knows.
UnknownShaderId == "Mystery"

HasShaderNode(nodeTypeId) == nodeTypeId \in DOMAIN SdrRegistry
GetShaderNodeByIdentifier(nodeTypeId) == SdrRegistry[nodeTypeId]
HasShaderInput(sdrEntry, name) == name \in DOMAIN sdrEntry.inputs
GetShaderInput(sdrEntry, name) == sdrEntry.inputs[name]
HasShaderOutput(sdrEntry, name) == name \in DOMAIN sdrEntry.outputs
GetShaderOutput(sdrEntry, name) == sdrEntry.outputs[name]

(***************************************************************************)
(* Values.  A VtValue is [held |-> <C++ type>, v |-> <payload>].  A float  *)
(* is a whole number of tenths, a double a whole number of hundredths; a   *)
(* vector is a tuple of them, an array a sequence.                         *)
(***************************************************************************)
\* int(v) for a float v: truncation toward zero.
FloatToInt(v) == IF v >= 0 THEN v \div 10 ELSE -((-v) \div 10)
\* float(v) for an int v.
IntToFloat(v) == v * 10
\* float(v) for a double v: the nearest float.
DoubleToFloat(v) == IF v >= 0 THEN (v + 5) \div 10 ELSE -((-v + 5) \div 10)

_ConvertToVec3fArray(v) ==
  [i \in 1..Len(v) |-> <<DoubleToFloat(v[i][1]), DoubleToFloat(v[i][2]), DoubleToFloat(v[i][3])>>]

\* TfUnstringify<int>: [value, ok].
TfUnstringifyInt(s) ==
  CASE s = "0" -> [value |-> 0, ok |-> TRUE]
    [] s = "1" -> [value |-> 1, ok |-> TRUE]
    [] s = "2" -> [value |-> 2, ok |-> TRUE]
    [] OTHER   -> [value |-> 0, ok |-> FALSE]

RECURSIVE OptionScan(_, _, _, _)
OptionScan(option, options, i, ok) ==
  IF i > Len(options) THEN [value |-> 0, ok |-> ok]
  ELSE IF options[i][1] = option THEN TfUnstringifyInt(options[i][2])
  ELSE OptionScan(option, options, i + 1, ok)

\* [value, ok]; ok is left as passed in when no option matches.
_ConvertOptionTokenToInt(option, options, ok) == OptionScan(option, options, 1, ok)

(***************************************************************************)
(* RtParamList: a sequence of [name, type, value]; setting a name that is  *)
(* already present replaces that entry.  A string value is the sequence of *)
(* the pieces it is concatenated from.                                     *)
(***************************************************************************)
EmptyParams == << >>

SetParam(params, name, type, value) ==
  LET p == [name |-> name, type |-> type, value |-> value]
      at == {i \in 1..Len(params) : params[i].name = name}
  IN IF at = {} THEN Append(params, p)
     ELSE [i \in 1..Len(params) |-> IF i \in at THEN p ELSE params[i]]

\* The string handed to the renderer for an asset path.  A string built
\* by concatenation is the sequence of its pieces.
AssetString(p, snType, paramName) ==
  LET resolved == p.resolvedPath
  IN IF resolved = "" THEN <<p.assetPath>>
     ELSE IF p.extension # "tex"
          THEN IF snType = "k_Light" /\ paramName = "texture:file"
               THEN <<"rtxplugin:RtxHioImage?filename=", resolved, "&flipped=false">>
               ELSE IF p.supportedImage
                    THEN <<"rtxplugin:RtxHioImage?filename=", resolved>>
                    ELSE <<resolved>>
          ELSE <<resolved>>

\* if (propType == SdrPropertyTypes->Struct || propType == SdrPropertyTypes->Vstruct)
IsStructTypeNever(propType) == FALSE
IsStructType(propType) == propType \in {"struct", "vstruct"}

\* One iteration of the parameter loop for a parameter whose property has
\* a non-empty type: [ok, params].
ConvertParam(params, paramName, val, prop, snType) ==
  LET propType == prop.type
      name == prop.implName
      held == val.held
      v == val.v
      Skip == [ok |-> FALSE, params |-> params]
      Set(type, value) == [ok |-> TRUE, params |-> SetParam(params, name, type, value)]
  IN CASE IsStructType(propType) -> [ok |-> TRUE, params |-> params]
       [] OTHER ->
          CASE held = "GfVec2f" ->
                 IF propType = "float" THEN Set("floatArray", v) ELSE Skip
            [] held = "GfVec3f" ->
                 IF propType \in {"color", "vector", "point", "normal"}
                 THEN Set(propType, v) ELSE Skip
            [] held = "GfVec4f" ->
                 IF propType = "float" THEN Set("floatArray", v) ELSE Skip
            [] held = "VtArray<GfVec3f>" ->
                 CASE propType = "color"  -> Set("colorArray", v)
                   [] propType = "vector" -> Set("vectorArray", v)
                   [] propType = "point"  -> Set("pointArray", v)
                   [] propType = "normal" -> Set("normalArray", v)
                   [] OTHER -> Skip
            [] held = "GfVec3d" ->
                 IF propType = "color"
                 THEN Set("color", <<DoubleToFloat(v[1]), DoubleToFloat(v[2]), DoubleToFloat(v[3])>>)
                 ELSE Skip
            [] held = "VtArray<GfVec3d>" ->
                 IF propType = "color" THEN Set("colorArray", _ConvertToVec3fArray(v)) ELSE Skip
            [] held = "float" ->
                 CASE propType = "int"   -> Set("integer", FloatToInt(v))
                   [] propType = "float" -> Set("float", v)
                   [] OTHER -> Skip
            [] held = "VtArray<float>" ->
                 IF propType = "float" THEN Set("floatArray", v) ELSE Skip
            [] held = "int" ->
                 CASE propType = "float" -> Set("float", IntToFloat(v))
                   [] propType = "int"   -> Set("integer", v)
                   [] OTHER -> Skip
            [] held = "VtArray<int>" ->
                 \* For a float input the code reads the int array through
                 \* UncheckedGet<VtArray<float>>: the ints' storage seen as floats.
                 CASE propType = "float" -> Set("floatArray", [punnedFrom |-> "int", data |-> v])
                   [] propType = "int"   -> Set("integerArray", v)
                   [] OTHER -> Skip
            [] held \in {"TfToken", "std::string"} ->
                 IF propType = "int"
                 THEN LET r == _ConvertOptionTokenToInt(v, prop.options, FALSE)
                      IN IF r.ok THEN Set("integer", r.value) ELSE Skip
                 ELSE Set("string", <<v>>)
            [] held = "SdfAssetPath" -> Set("string", AssetString(v, snType, paramName))
            [] held = "bool" -> Set("integer", IF v THEN 1 ELSE 0)
            [] OTHER -> Skip

\* The parameter loop over node.parameters (a std::map, so in key order).
RECURSIVE ConvertParams(_, _, _, _, _)
ConvertParams(node, sdrEntry, snType, i, params) ==
  IF i > Len(InputOrder) THEN params
  ELSE LET paramName == InputOrder[i]
           next(ps) == ConvertParams(node, sdrEntry, snType, i + 1, ps)
       IN IF paramName \notin DOMAIN node.parameters THEN next(params)
          ELSE IF ~HasShaderInput(sdrEntry, paramName) THEN next(params)
          ELSE IF GetShaderInput(sdrEntry, paramName).type = "" THEN next(params)
          ELSE next(ConvertParam(params, paramName, node.parameters[paramName],
                                 GetShaderInput(sdrEntry, paramName), snType).params)

(***************************************************************************)
(* HdMaterialNetwork2:                                                     *)
(*   network = [nodes, terminals]                                          *)
(*   nodes      : function from some paths to HdMaterialNode2              *)
(*   terminals  : function from some terminal names to HdMaterialConnection2 *)
(*   node = [nodeTypeId, parameters, inputConnections]                     *)
(*   inputConnections : function from some input names to sequences of     *)
(*                      [upstreamNode, upstreamOutputName]                 *)
(***************************************************************************)
\* The connections of a node in the order the two nested loops visit them,
\* each with the input name it is authored on.
RECURSIVE FlatConnections(_, _)
FlatConnections(node, i) ==
  IF i > Len(InputOrder) THEN << >>
  ELSE LET input == InputOrder[i]
           here == IF input \in DOMAIN node.inputConnections
                   THEN [k \in 1..Len(node.inputConnections[input]) |->
                           [input |-> input,
                            upstreamNode |-> node.inputConnections[input][k].upstreamNode,
                            upstreamOutputName |->
                              node.inputConnections[input][k].upstreamOutputName]]
                   ELSE << >>
       IN here \o FlatConnections(node, i + 1)

\* riley::ShadingNode::Type for a registry context, "none" when the context
\* is not recognised.
ShadingNodeTypeIdFirst(context, nodeTypeId) ==
  CASE nodeTypeId = "PxrDisplace" -> "k_Displacement"
    [] context \in {"bxdf", "surface", "volume"} -> "k_Bxdf"
    [] context \in {"pattern", "OSL"} -> "k_Pattern"
    [] context = "displacement" -> "k_Displacement"
    [] context = "light" -> "k_Light"
    [] context = "lightFilter" -> "k_LightFilter"
    [] OTHER -> "none"
ShadingNodeType(context, nodeTypeId) ==
  CASE context \in {"bxdf", "surface", "volume"} -> "k_Bxdf"
    [] context \in {"pattern", "OSL"} ->
         IF nodeTypeId = "PxrDisplace" THEN "k_Displacement" ELSE "k_Pattern"
    [] context = "displacement" -> "k_Displacement"
    [] context = "light" -> "k_Light"
    [] context = "lightFilter" -> "k_LightFilter"
    [] OTHER -> "none"

\* sn.name: the resolved path, or the implementation name for the types
\* the renderer picks by name.
ShaderNameAlwaysPath(sdrEntry, snType) == sdrEntry.uri
ShaderName(sdrEntry, snType) ==
  IF snType \in {"k_Displacement", "k_Light", "k_LightFilter"}
  THEN sdrEntry.implName
  ELSE sdrEntry.uri

\* The reference type set for a connection into an input of type propType,
\* "none" when the type takes no reference.
ReferenceType(propType) ==
  CASE propType = "color"  -> "colorRef"
    [] propType = "vector" -> "vectorRef"
    [] propType = "point"  -> "pointRef"
    [] propType = "normal" -> "normalRef"
    [] propType = "float"  -> "floatRef"
    [] propType = "int"    -> "integerRef"
    [] propType = "string" -> "stringRef"
    [] propType = "struct" -> "structRef"
    [] OTHER -> "none"

\* One iteration of the connection loop: the node's params after it.
ConvertConnectionSkipsNoCheck(network, sdrEntry, e, params) ==
  IF ~HasShaderInput(sdrEntry, e.input) THEN params
  ELSE LET downstreamProp == GetShaderInput(sdrEntry, e.input)
           refType == ReferenceType(downstreamProp.type)
       IN IF refType = "none" THEN params
          ELSE SetParam(params, downstreamProp.implName, refType,
                        <<e.upstreamNode, ":", e.upstreamOutputName>>)

ConvertConnection(network, sdrEntry, e, params) ==
  IF e.upstreamNode \notin DOMAIN network.nodes THEN params
  ELSE LET upstreamNode == network.nodes[e.upstreamNode]
       IN IF ~HasShaderNode(upstreamNode.nodeTypeId) THEN params
          ELSE LET upstreamSdrEntry == GetShaderNodeByIdentifier(upstreamNode.nodeTypeId)
               IN IF ~HasShaderInput(sdrEntry, e.input) THEN params
                  ELSE IF ~HasShaderOutput(upstreamSdrEntry, e.upstreamOutputName) THEN params
                  ELSE LET downstreamProp == GetShaderInput(sdrEntry, e.input)
                           upstreamProp == GetShaderOutput(upstreamSdrEntry, e.upstreamOutputName)
                           refType == ReferenceType(downstreamProp.type)
                       IN IF refType = "none" THEN params
                          ELSE SetParam(params, downstreamProp.implName, refType,
                                        <<e.upstreamNode, ":", upstreamProp.implName>>)

RECURSIVE ConvertConnections(_, _, _, _, _)
ConvertConnections(network, sdrEntry, conns, i, params) ==
  IF i > Len(conns) THEN params
  ELSE ConvertConnections(network, sdrEntry, conns, i + 1,
                          ConvertConnection(network, sdrEntry, conns[i], params))

\* result->emplace_back(sn)
EmitFirst(result, sn) == <<sn>> \o result
Emit(result, sn) == Append(result, sn)

\* What the pre-traversal loop carries on after one upstream call returned
\* r: the result list and the visited set are shared through pointers.
AfterUpstreamByValue(acc, r) == [result |-> r.result, visitedNodes |-> acc.visitedNodes]
AfterUpstream(acc, r) == [result |-> r.result, visitedNodes |-> r.visitedNodes]

\* The body of _ConvertNodes after the pre-traversal, for a node that is in
\* the network: [ok, result, visitedNodes].
ConvertNode(network, nodePath, acc) ==
  LET node == network.nodes[nodePath]
      Fail == [ok |-> FALSE, result |-> acc.result, visitedNodes |-> acc.visitedNodes]
  IN IF ~HasShaderNode(node.nodeTypeId) THEN Fail
     ELSE LET sdrEntry == GetShaderNodeByIdentifier(node.nodeTypeId)
              snType == ShadingNodeType(sdrEntry.context, node.nodeTypeId)
          IN IF snType = "none" THEN Fail
             ELSE IF sdrEntry.uri = "" THEN Fail
             ELSE LET params == ConvertConnections(network, sdrEntry, FlatConnections(node, 1), 1,
                                   ConvertParams(node, sdrEntry, snType, 1, EmptyParams))
                      sn == [type |-> snType, handle |-> nodePath,
                             name |-> ShaderName(sdrEntry, snType), params |-> params]
                  IN [ok |-> TRUE, result |-> Emit(acc.result, sn),
                      visitedNodes |-> acc.visitedNodes]

RECURSIVE _ConvertNodes(_, _, _, _), PreTraverse(_, _, _, _)
\* The loop over the upstream connections of a node: [result, visitedNodes].
PreTraverse(network, conns, i, acc) ==
  IF i > Len(conns) THEN acc
  ELSE PreTraverse(network, conns, i + 1,
         AfterUpstream(acc, _ConvertNodes(network, conns[i].upstreamNode,
                                          acc.result, acc.visitedNodes)))

\* [ok, result, visitedNodes]
_ConvertNodes(network, nodePath, result, visitedNodes) ==
  IF nodePath \in visitedNodes
  THEN [ok |-> FALSE, result |-> result, visitedNodes |-> visitedNodes]
  ELSE LET visited1 == visitedNodes \cup {nodePath}
       IN IF nodePath \notin DOMAIN network.nodes
          THEN [ok |-> FALSE, result |-> result, visitedNodes |-> visited1]
          ELSE ConvertNode(network, nodePath,
                 PreTraverse(network, FlatConnections(network.nodes[nodePath], 1), 1,
                             [result |-> result, visitedNodes |-> visited1]))

\* Variants of the entry point: the flag says that something was emitted;
\* the visited set outlives the call.
ConvertFlagAnyEmitted(network, nodePath, result) ==
  LET r == _ConvertNodes(network, nodePath, result, {})
  IN [r EXCEPT !.ok = (r.result # << >>)]
ConvertStaticVisited(network, nodePath, result) ==
  _ConvertNodes(network, nodePath, result, visited)

\* bool HdPrman_ConvertHdMaterialNetwork2ToRmanNodes(network, nodePath, result):
\* a fresh visited set for every call.  [ok, result, visitedNodes]
HdPrman_ConvertHdMaterialNetwork2ToRmanNodes(network, nodePath, result) ==
  _ConvertNodes(network, nodePath, result, {})

(***************************************************************************)
(* The networks handed to the converter: every network over NodePaths      *)
(* with at most MaxEdits authored features, a feature being a connection   *)
(* on input inA or inB to any path (the missing one included) or a node    *)
(* type the registry cannot convert.                                       *)
(***************************************************************************)
PathOrder == <<"/A", "/B", "/C", "/X">>
OddTypeIds == {UnknownShaderId, "Gadget", "NoImpl"}
DefaultTypeId(p) == IF p = "/A" THEN "PxrSurface" ELSE "PxrTexture"
DefaultParameters == [n \in {"inB"} |-> [held |-> "float", v |-> 15]]

ConnFeatures == {<<"conn", p, i, t>> : p \in NodePaths, i \in {"inA", "inB"}, t \in Paths}
TypeFeatures == {<<"type", p, "", t>> : p \in NodePaths, t \in OddTypeIds}
Features == ConnFeatures \cup TypeFeatures

RECURSIVE KSubsets(_, _)
KSubsets(U, k) ==
  IF k = 0 THEN {{}}
  ELSE LET less == KSubsets(U, k - 1)
       IN less \cup {S \cup {x} : S \in less, x \in U}

FeatureSets(k) ==
  {F \in KSubsets(Features, k) :
     \A p \in NodePaths : Cardinality({f \in F : f[1] = "type" /\ f[2] = p}) <= 1}

RECURSIVE ConnSeq(_, _, _, _)
ConnSeq(F, p, input, k) ==
  IF k > Len(PathOrder) THEN << >>
  ELSE (IF <<"conn", p, input, PathOrder[k]>> \in F
        THEN <<[upstreamNode |-> PathOrder[k], upstreamOutputName |-> "out"]>>
        ELSE << >>) \o ConnSeq(F, p, input, k + 1)

NodeOf(F, p) ==
  LET odd == {f \in F : f[1] = "type" /\ f[2] = p}
      inputs == {i \in {"inA", "inB"} : \E f \in F : f[1] = "conn" /\ f[2] = p /\ f[3] = i}
  IN [nodeTypeId |-> IF odd = {} THEN DefaultTypeId(p) ELSE (CHOOSE f \in odd : TRUE)[4],
      parameters |-> DefaultParameters,
      inputConnections |-> [i \in inputs |-> ConnSeq(F, p, i, 1)]]

NoTerminals == [t \in {} |-> [upstreamNode |-> "", upstreamOutputName |-> ""]]

NetworkOf(F) == [nodes |-> [p \in NodePaths |-> NodeOf(F, p)], terminals |-> NoTerminals]

ConvNetworks(k) == {NetworkOf(F) : F \in FeatureSets(k)}
\* The calls made: from /A on every network, and from the missing path
\* (where the network's features play no part) on the networks of at most
\* one feature.
ConvInputs(k) ==
  {<<net, "/A">> : net \in ConvNetworks(k)} \cup
  {<<net, MissingPath>> : net \in ConvNetworks(1)}
\* A caller converts the same network at most this many times.
MaxCalls == 2

(***************************************************************************)
(* Riley, the renderer.  Ids are handed out in sequence; a create that     *)
(* fails returns InvalidId.  A call is logged as [op, terminal, id, nodes]: *)
(* id is the id returned by a create and the id passed to a modify or a    *)
(* delete.                                                                 *)
(***************************************************************************)
NoRiley == [nextId |-> 0, materials |-> {}, displacements |-> {}]
AllDirty == {"DirtyResource", "DirtyParams", "DirtyOther"}
Clean == {}
NoHandler == [handler |-> "none"]
NoClassification == [context |-> "", nodeTypeId |-> "", type |-> "none"]

Call(op, terminal, id, shadingNodes) ==
  [op |-> op, terminal |-> terminal, id |-> id, nodes |-> shadingNodes]

\* st is the state a handler works on:
\*   [materialId, displacementId, riley, calls, errors, nodes, materialFound,
\*    displacementFound]
CreateMaterial(st, terminal, created) ==
  LET id == IF created THEN st.riley.nextId + 1 ELSE InvalidId
  IN [st EXCEPT !.materialId = id,
                !.riley.nextId = IF created THEN id ELSE @,
                !.riley.materials = IF created THEN @ \cup {id} ELSE @,
                !.calls = Append(@, Call("CreateMaterial", terminal, id, st.nodes))]

ModifyMaterial(st, terminal) ==
  [st EXCEPT !.calls = Append(@, Call("ModifyMaterial", terminal, st.materialId, st.nodes))]

CreateDisplacement(st, terminal, created) ==
  LET id == IF created THEN st.riley.nextId + 1 ELSE InvalidId
  IN [st EXCEPT !.displacementId = id,
                !.riley.nextId = IF created THEN id ELSE @,
                !.riley.displacements = IF created THEN @ \cup {id} ELSE @,
                !.calls = Append(@, Call("CreateDisplacement", terminal, id, st.nodes))]

ModifyDisplacement(st, terminal) ==
  [st EXCEPT !.calls = Append(@, Call("ModifyDisplacement", terminal, st.displacementId, st.nodes))]

DeleteMaterial(st) ==
  [st EXCEPT !.riley.materials = @ \ {st.materialId},
             !.calls = Append(@, Call("DeleteMaterial", "", st.materialId, << >>)),
             !.materialId = InvalidId]

DeleteDisplacementKeepsId(st) ==
  [st EXCEPT !.riley.displacements = @ \ {st.displacementId},
             !.calls = Append(@, Call("DeleteDisplacement", "", st.displacementId, << >>))]
DeleteDisplacement(st) ==
  [st EXCEPT !.riley.displacements = @ \ {st.displacementId},
             !.calls = Append(@, Call("DeleteDisplacement", "", st.displacementId, << >>)),
             !.displacementId = InvalidId]

\* HdPrmanMaterial::_ResetMaterial
ResetMaterialOnly(st) ==
  IF st.materialId # InvalidId THEN DeleteMaterial(st) ELSE st
_ResetMaterial(st) ==
  LET s1 == IF st.materialId # InvalidId THEN DeleteMaterial(st) ELSE st
  IN IF s1.displacementId # InvalidId THEN DeleteDisplacement(s1) ELSE s1

(***************************************************************************)
(* _ConvertHdMaterialNetwork2ToRman.  order is the order in which the loop *)
(* meets the terminals; created[t] says whether a create issued for        *)
(* terminal t succeeds.                                                    *)
(***************************************************************************)
\* TF_RUNTIME_ERROR: one entry [what, terminal] per report.
Report(st, what, terminal) ==
  [st EXCEPT !.errors = Append(@, [what |-> what, terminal |-> terminal])]

\* if (*materialId == riley::MaterialId::InvalidId()) TF_RUNTIME_ERROR(...),
\* after the create or modify of a terminal.
ReportNothing(st, id, what, terminal) == st
ReportIfInvalid(st, id, what, terminal) ==
  IF id = InvalidId THEN Report(st, what, terminal) ELSE st

\* if (*materialId == riley::MaterialId::InvalidId())
AlwaysCreate(id) == TRUE
NeedsCreate(id) == id = InvalidId

\* nodes.clear() at the end of an iteration.
KeepNodes(shadingNodes) == shadingNodes
KeepLastNode(shadingNodes) ==
  IF shadingNodes = << >> THEN << >> ELSE <<shadingNodes[Len(shadingNodes)]>>
ClearNodes(shadingNodes) == << >>

\* The index the loop goes on with after a terminal whose conversion failed.
BreakAfterFailure(order, i) == Len(order) + 1
AfterFailedTerminal(order, i) == i + 1

\* The success branch of one iteration.
CommitTerminal(st, terminal, created) ==
  IF terminal \in {"surface", "volume"}
  THEN LET s1 == [st EXCEPT !.materialFound = TRUE]
           s2 == IF NeedsCreate(s1.materialId)
                 THEN CreateMaterial(s1, terminal, created)
                 ELSE ModifyMaterial(s1, terminal)
       IN ReportIfInvalid(s2, s2.materialId, "Failed to create material", terminal)
  ELSE IF terminal = "displacement"
  THEN LET s1 == [st EXCEPT !.displacementFound = TRUE]
           s2 == IF NeedsCreate(s1.displacementId)
                 THEN CreateDisplacement(s1, terminal, created)
                 ELSE ModifyDisplacement(s1, terminal)
       IN ReportIfInvalid(s2, s2.displacementId, "Failed to create displacement", terminal)
  ELSE st

RECURSIVE TerminalLoop(_, _, _, _, _)
TerminalLoop(network, order, i, st, created) ==
  IF i > Len(order) THEN st
  ELSE LET terminal == order[i]
           r == HdPrman_ConvertHdMaterialNetwork2ToRmanNodes(
                  network, network.terminals[terminal].upstreamNode, st.nodes)
           s1 == [st EXCEPT !.nodes = r.result]
       IN IF r.ok
          THEN LET s2 == CommitTerminal(s1, terminal, created[terminal])
               IN TerminalLoop(network, order, i + 1,
                               [s2 EXCEPT !.nodes = ClearNodes(@)], created)
          ELSE LET s2 == Report(s1, "Failed to convert nodes", terminal)
               IN TerminalLoop(network, order, AfterFailedTerminal(order, i),
                               [s2 EXCEPT !.nodes = ClearNodes(@)], created)

\* "Free dis-used networks."
FreeDisusedNever(st) == st
FreeDisused(st) ==
  LET s1 == IF ~st.materialFound THEN DeleteMaterial(st) ELSE st
  IN IF ~s1.displacementFound THEN DeleteDisplacement(s1) ELSE s1

_ConvertHdMaterialNetwork2ToRman(st, network, order, created) ==
  FreeDisused(TerminalLoop(network, order, 1,
                [st EXCEPT !.nodes = << >>, !.materialFound = FALSE,
                           !.displacementFound = FALSE],
                created))

\* The state a handler starts from.
Entry(mId, dId, r) ==
  [materialId |-> mId, displacementId |-> dId, riley |-> r, calls |-> << >>,
   errors |-> << >>, nodes |-> << >>, materialFound |-> FALSE, displacementFound |-> FALSE]

\* HdPrmanMaterial::IsValid
IsValid == materialId # InvalidId

\* if ((*dirtyBits & HdMaterial::DirtyResource) || (*dirtyBits & HdMaterial::DirtyParams))
IsDirty(bits) == "DirtyResource" \in bits \/ "DirtyParams" \in bits

(***************************************************************************)
(* The material resources the scene delegate hands to Sync: the networks   *)
(* over one body of five nodes (a surface, a displacement and a volume     *)
(* shader and a shader of a context the converter does not know, all       *)
(* reading one texture) with any choice of terminals, and a value that is  *)
(* no network.                                                             *)
(***************************************************************************)
Conn(p) == [upstreamNode |-> p, upstreamOutputName |-> "out"]
Node(typeId, conns) ==
  [nodeTypeId |-> typeId, parameters |-> DefaultParameters, inputConnections |-> conns]
NoConnections == [i \in {} |-> << >>]

SyncBody ==
  [p \in {"/Surf", "/Disp", "/Vol", "/Bad", "/Tex"} |->
     CASE p = "/Surf" -> Node("PxrSurface", [i \in {"inA"} |-> <<Conn("/Tex")>>])
       [] p = "/Disp" -> Node("PxrDisplace", [i \in {"inB"} |-> <<Conn("/Tex")>>])
       [] p = "/Vol"  -> Node("PxrVolume", [i \in {"inA"} |-> <<Conn("/Tex")>>])
       [] p = "/Bad"  -> Node("Gadget", [i \in {"inA"} |-> <<Conn("/Tex")>>])
       [] p = "/Tex"  -> Node("PxrTexture", NoConnections)]

TerminalRoots(t) ==
  CASE t = "surface"      -> {"/Surf", "/Bad"}
    [] t = "displacement" -> {"/Disp", MissingPath}
    [] t = "volume"       -> {"/Vol"}

TerminalMaps ==
  UNION {[T -> {"/Surf", "/Disp", "/Vol", "/Bad", MissingPath}] :
           T \in SUBSET {"surface", "displacement", "volume"}}

SyncNetworks ==
  {[nodes |-> SyncBody, terminals |-> [t \in DOMAIN m |-> Conn(m[t])]] :
     m \in {m \in TerminalMaps : \A t \in DOMAIN m : m[t] \in TerminalRoots(t)}}

EmptyNetwork == [nodes |-> [p \in {} |-> Node("", NoConnections)], terminals |-> NoTerminals]

\* The dirty bits a Sync is called with.
DirtyChoices == {{"DirtyParams"}, {"DirtyResource"}}
CleanChoices == {Clean, {"DirtyOther"}}

\* network.terminals is a std::map keyed by TfToken: the loop meets the
\* terminals in the order of their names, which TerminalOrder lists.  The
\* reverse order is admitted as well, so that every two terminals are met
\* in both orders.
Reverse(seq) == [i \in 1..Len(seq) |-> seq[Len(seq) + 1 - i]]
Orders(T) ==
  LET sorted == SelectSeq(TerminalOrder, LAMBDA t : t \in T)
  IN {sorted, Reverse(sorted)}

(***************************************************************************)
(* HdxOitVolumeRenderTask (oitVolumeRenderTask.cpp).  The GL context is a  *)
(* function from the two capabilities the task touches to whether they are *)
(* enabled.                                                                *)
(***************************************************************************)
Capabilities == {"GL_MULTISAMPLE", "GL_POINT_SMOOTH"}
GLStates == [Capabilities -> BOOLEAN]

glIsEnabled(g, cap) == g[cap]
glEnable(g, cap) == [g EXCEPT ![cap] = TRUE]
glDisable(g, cap) == [g EXCEPT ![cap] = FALSE]

\* What _GetRenderPassState(ctx) gives: nothing, an HdStRenderPassState or
\* a render pass state of another render delegate.
RenderPassStateKinds == {"none", "HdSt", "other"}

DefaultRenderPassState ==
  [useSceneMaterials |-> FALSE, depthFunc |-> "HdCmpFuncLEqual",
   cullStyle |-> "HdCullStyleNothing", enableDepthMask |-> TRUE,
   colorMasks |-> <<"ColorMaskRGBA">>, renderPassShader |-> "default",
   shaderCullStyle |-> "HdCullStyleDontCare"]

NoExecute == [path |-> "none"]

\* The task before any Execute, and in the behaviours that have no task.
OitIdle ==
  /\ isOitEnabled = FALSE
  /\ gl = [cap \in Capabilities |-> cap = "GL_POINT_SMOOTH"]
  /\ renderPassState = DefaultRenderPassState
  /\ executed = NoExecute

\* HdxRenderTask::Execute(ctx): the render pass runs under the GL state of
\* the moment and leaves the two capabilities as it found them.
RenderPass(t) == [t EXCEPT !.passes = Append(@, t.gl)]

\* if (oldMSAA) glEnable(GL_MULTISAMPLE);
RestoreMSAA(t, oldMSAA) ==
  IF oldMSAA THEN [t EXCEPT !.gl = glEnable(@, "GL_MULTISAMPLE")] ELSE t

\* if (!oldPointSmooth) glDisable(GL_POINT_SMOOTH);
RestorePointSmoothInverted(t, oldPointSmooth) ==
  IF oldPointSmooth THEN [t EXCEPT !.gl = glDisable(@, "GL_POINT_SMOOTH")] ELSE t
RestorePointSmooth(t, oldPointSmooth) ==
  IF ~oldPointSmooth THEN [t EXCEPT !.gl = glDisable(@, "GL_POINT_SMOOTH")] ELSE t

\* The part of Execute from the first GL call on.
TranslucentPass(t) ==
  LET oldMSAA == glIsEnabled(t.gl, "GL_MULTISAMPLE")
      t1 == [t EXCEPT !.gl = glDisable(@, "GL_MULTISAMPLE")]
      oldPointSmooth == glIsEnabled(t1.gl, "GL_POINT_SMOOTH")
      t2 == [t1 EXCEPT !.gl = glEnable(@, "GL_POINT_SMOOTH")]
      t3 == [t2 EXCEPT !.renderPassState.shaderCullStyle = t2.renderPassState.cullStyle,
                       !.renderPassState.renderPassShader = "oitVolume",
                       !.renderPassState.enableDepthMask = FALSE,
                       !.renderPassState.colorMasks = <<"ColorMaskNone">>]
      t4 == RenderPass(t3)
  IN RestorePointSmooth(RestoreMSAA(t4, oldMSAA), oldPointSmooth)

\* HdxOitVolumeRenderTask::Execute on t = [gl, renderPassState, requests,
\* initialized, passes, path]; hasDrawItems is _HasDrawItems(), kind what
\* _GetRenderPassState gives, bindings what AddOitBufferBindings returns.
ExecuteBody(enabled, t, hasDrawItems, kind, bindings) ==
  IF ~enabled \/ ~hasDrawItems THEN [t EXCEPT !.path = "skipped"]
  ELSE LET t1 == [t EXCEPT !.requests = @ + 1, !.initialized = TRUE]
       IN IF kind = "none" THEN [t1 EXCEPT !.path = "noRenderPassState"]
          ELSE IF kind # "HdSt" THEN [t1 EXCEPT !.path = "notHdSt"]
          ELSE LET t2 == [t1 EXCEPT !.renderPassState.useSceneMaterials = TRUE,
                                    !.renderPassState.depthFunc = "HdCmpFuncAlways",
                                    !.renderPassState.cullStyle = "HdCullStyleBack"]
               IN IF ~bindings THEN [t2 EXCEPT !.path = "noOitBuffers"]
                  ELSE [TranslucentPass(t2) EXCEPT !.path = "rendered"]

\* The constructor: _isOitEnabled is read once; the GL context is in any
\* state.
OitInit ==
  /\ isOitEnabled \in BOOLEAN
  /\ gl \in GLStates
  /\ renderPassState = DefaultRenderPassState
  /\ executed = NoExecute
  /\ materialNetwork = EmptyNetwork
  /\ materialId = InvalidId
  /\ displacementId = InvalidId
  /\ dirtyBits = AllDirty
  /\ riley = NoRiley
  /\ calls = << >>
  /\ errors = << >>
  /\ last = NoHandler
  /\ rootPath = ""
  /\ nodes = << >>
  /\ flag = FALSE
  /\ visited = {}
  /\ pc = "idle"
  /\ history = << >>
  /\ classified = NoClassification

\* HdxOitVolumeRenderTask::Execute
Execute ==
  /\ \E hasDrawItems \in BOOLEAN, kind \in RenderPassStateKinds, bindings \in BOOLEAN :
       LET t == ExecuteBody(isOitEnabled,
                            [gl |-> gl, renderPassState |-> renderPassState,
                             requests |-> 0, initialized |-> FALSE, passes |-> << >>,
                             path |-> "none"],
                            hasDrawItems, kind, bindings)
       IN /\ gl' = t.gl
          /\ renderPassState' = t.renderPassState
          /\ executed' = [path |-> t.path, hasDrawItems |-> hasDrawItems, kind |-> kind,
                          bindings |-> bindings, before |-> gl, requests |-> t.requests,
                          initialized |-> t.initialized, passes |-> t.passes]
  /\ UNCHANGED <<isOitEnabled, materialNetwork, pc, convVars, syncVars>>

\* Between two frames another task enables or disables a capability; the
\* record of the Execute that returned is dropped.
OtherTaskSetsGL ==
  /\ \E cap \in Capabilities :
       gl' = [gl EXCEPT ![cap] = ~@]
  /\ executed' = NoExecute
  /\ UNCHANGED <<isOitEnabled, renderPassState, materialNetwork, pc, convVars, syncVars>>

OitNext == Execute \/ OtherTaskSetsGL

OitSpec == OitInit /\ [][OitNext]_vars

(***************************************************************************)
(* Spec: one HdPrmanMaterial under Sync and Finalize.                      *)
(***************************************************************************)
Init ==
  /\ materialNetwork = EmptyNetwork
  /\ materialId = InvalidId
  /\ displacementId = InvalidId
  /\ dirtyBits = AllDirty
  /\ riley = NoRiley
  /\ calls = << >>
  /\ errors = << >>
  /\ last = NoHandler
  /\ OitIdle
  /\ rootPath = ""
  /\ nodes = << >>
  /\ flag = FALSE
  /\ visited = {}
  /\ pc = "idle"
  /\ history = << >>
  /\ classified = NoClassification

Returned(st) ==
  /\ materialId' = st.materialId
  /\ displacementId' = st.displacementId
  /\ riley' = st.riley
  /\ calls' = st.calls
  /\ errors' = st.errors
  /\ pc' = "returned"

LastSync(bits, isNetwork, order, created) ==
  [handler |-> "Sync", bits |-> bits, isNetwork |-> isNetwork,
   order |-> order, created |-> created,
   materialId |-> materialId, displacementId |-> displacementId, riley |-> riley]

\* HdPrmanMaterial::Sync with neither DirtyResource nor DirtyParams set.
SyncClean ==
  /\ pc = "idle"
  /\ \E bits \in CleanChoices :
       /\ ~IsDirty(bits)
       /\ Returned(Entry(materialId, displacementId, riley))
       /\ last' = LastSync(bits, FALSE, << >>, << >>)
  /\ dirtyBits' = Clean
  /\ UNCHANGED <<materialNetwork, convVars, oitVars>>

\* HdPrmanMaterial::Sync, dirty, with a material resource that holds a network.
SyncNetwork ==
  /\ pc = "idle"
  /\ \E bits \in DirtyChoices, network \in SyncNetworks :
       \E order \in Orders(DOMAIN network.terminals),
          created \in [DOMAIN network.terminals -> BOOLEAN] :
         LET st == _ConvertHdMaterialNetwork2ToRman(
                     Entry(materialId, displacementId, riley), network, order, created)
         IN /\ IsDirty(bits)
            /\ st.riley.nextId <= MaxIds
            /\ Returned(st)
            /\ materialNetwork' = network
            /\ last' = LastSync(bits, TRUE, order, created)
  /\ dirtyBits' = Clean
  /\ UNCHANGED <<convVars, oitVars>>

\* HdPrmanMaterial::Sync, dirty, with a material resource that holds something else.
SyncOther ==
  /\ pc = "idle"
  /\ \E bits \in DirtyChoices :
       /\ IsDirty(bits)
       /\ Returned(_ResetMaterial(Entry(materialId, displacementId, riley)))
       /\ last' = LastSync(bits, FALSE, << >>, << >>)
  /\ dirtyBits' = Clean
  /\ UNCHANGED <<materialNetwork, convVars, oitVars>>

\* HdPrmanMaterial::Finalize
Finalize ==
  /\ pc = "idle"
  /\ Returned(_ResetMaterial(Entry(materialId, displacementId, riley)))
  /\ last' = [handler |-> "Finalize", bits |-> dirtyBits, isNetwork |-> FALSE,
              order |-> << >>, created |-> << >>,
              materialId |-> materialId, displacementId |-> displacementId,
              riley |-> riley]
  /\ UNCHANGED <<materialNetwork, dirtyBits, convVars, oitVars>>

\* The render index goes on to its next pass; the record of the handler
\* that returned is dropped.
NextPass ==
  /\ pc = "returned"
  /\ pc' = "idle"
  /\ calls' = << >>
  /\ errors' = << >>
  /\ last' = NoHandler
  /\ UNCHANGED <<materialNetwork, materialId, displacementId, dirtyBits, riley, convVars, oitVars>>

Next == SyncClean \/ SyncNetwork \/ SyncOther \/ Finalize \/ NextPass

Spec == Init /\ [][Next]_vars

(***************************************************************************)
(* ConvSpec: a caller that converts one materialNetwork from one rootPath, clears its  *)
(* vector and converts again.                                              *)
(***************************************************************************)
ConvInit ==
  /\ \E input \in ConvInputs(MaxEdits) :
       /\ materialNetwork = input[1]
       /\ rootPath = input[2]
  /\ nodes = << >>
  /\ flag = FALSE
  /\ visited = {}
  /\ pc = "idle"
  /\ history = << >>
  /\ classified = NoClassification
  /\ materialId = InvalidId
  /\ displacementId = InvalidId
  /\ dirtyBits = AllDirty
  /\ riley = NoRiley
  /\ calls = << >>
  /\ errors = << >>
  /\ last = NoHandler
  /\ OitIdle

Convert ==
  /\ pc = "idle"
  /\ LET r == HdPrman_ConvertHdMaterialNetwork2ToRmanNodes(materialNetwork, rootPath, nodes)
     IN /\ nodes' = r.result
        /\ flag' = r.ok
        /\ visited' = r.visitedNodes
  /\ pc' = "converted"
  /\ UNCHANGED <<materialNetwork, rootPath, history, classified, syncVars, oitVars>>

\* nodes.clear() before the next call.
ClearResult ==
  /\ pc = "converted"
  /\ Len(history) + 1 < MaxCalls
  /\ history' = Append(history, [result |-> nodes, ok |-> flag])
  /\ nodes' = << >>
  /\ pc' = "idle"
  /\ UNCHANGED <<materialNetwork, rootPath, flag, visited, classified, syncVars, oitVars>>

ConvNext == Convert \/ ClearResult

ConvSpec == ConvInit /\ [][ConvNext]_vars

(***************************************************************************)
(* NodeSpec: one node "/N" converted on its own.  The node has any shader  *)
(* identifier, the default parameter and at most one more authored         *)
(* parameter of any held type on any input, and a few authored             *)
(* connections to four neighbours: two textures, a shader of a context the *)
(* converter does not know, a shader the registry does not know; a         *)
(* connection may also name a path that is not in the network or an output *)
(* the upstream shader does not have.                                      *)
(***************************************************************************)
ProbePath == "/N"
NodeTypeIds == ShaderIds \cup {UnknownShaderId}

ProbeBody(typeId, parameters, conns) ==
  [p \in {"/N", "/B", "/D", "/G", "/U"} |->
     CASE p = "/N" -> [nodeTypeId |-> typeId, parameters |-> parameters,
                       inputConnections |-> conns]
       [] p = "/B" -> Node("PxrTexture", NoConnections)
       [] p = "/D" -> Node("PxrTexture", NoConnections)
       [] p = "/G" -> Node("Gadget", NoConnections)
       [] p = "/U" -> Node(UnknownShaderId, NoConnections)]

\* SdfAssetPath: the two paths, the extension the resolver reports for the
\* resolved one and whether the image registry can read it.
AssetPath(resolved, asset, ext, image) ==
  [resolvedPath |-> resolved, assetPath |-> asset, extension |-> ext,
   supportedImage |-> image]

\* The values a parameter may hold.  2.7 is the float 27, 0.25 the double 25.
ProbeValues ==
  <<[held |-> "float", v |-> 27], [held |-> "float", v |-> -27],
    [held |-> "int", v |-> 3], [held |-> "bool", v |-> TRUE],
    [held |-> "GfVec2f", v |-> <<1, 2>>], [held |-> "GfVec3f", v |-> <<1, 2, 3>>],
    [held |-> "GfVec3d", v |-> <<11, 25, -36>>],
    [held |-> "VtArray<GfVec3d>", v |-> << <<11, 25, -36>> >>],
    [held |-> "VtArray<int>", v |-> <<1, 2>>],
    [held |-> "std::string", v |-> "2"], [held |-> "std::string", v |-> "high"],
    [held |-> "std::string", v |-> "none"],
    [held |-> "TfToken", v |-> "2"], [held |-> "TfToken", v |-> "med"],
    [held |-> "TfToken", v |-> "none"],
    [held |-> "SdfAssetPath", v |-> AssetPath("", "a.png", "png", TRUE)],
    [held |-> "SdfAssetPath", v |-> AssetPath("/r/a.png", "a.png", "png", TRUE)],
    [held |-> "SdfAssetPath", v |-> AssetPath("/r/a.tex", "a.tex", "tex", FALSE)],
    [held |-> "SdfPath", v |-> "/P"]>>

InputNames == {InputOrder[i] : i \in 1..Len(InputOrder)}

\* node.parameters: the default parameter and, for k > 0, the k-th value
\* authored on the input name.
ProbeParameters(name, k) ==
  IF k = 0 THEN DefaultParameters
  ELSE [n \in {"inB", name} |-> IF n = name THEN ProbeValues[k] ELSE DefaultParameters[n]]

ProbeUpstreams == {"/B", "/G", "/U", MissingPath}
ProbeOutputs == {"out", "nope"}
ProbeConnections ==
  {[upstreamNode |-> u, upstreamOutputName |-> o] : u \in ProbeUpstreams, o \in ProbeOutputs}

\* inputConnections: one connection on any input; two connections on one
\* input; a good connection on inA and any connection on another input.
SingleConns == {[i \in {input} |-> <<e>>] : input \in InputNames, e \in ProbeConnections}
PairConns ==
  {[i \in {input} |-> <<Conn(a), Conn(b)>>] :
     input \in {"inA", "inStruct"}, a \in {"/B", "/D"}, b \in {"/B", "/D", "/G"}}
TwoInputConns ==
  {[i \in {"inA", input} |-> IF i = "inA" THEN <<Conn("/B")>> ELSE <<e>>] :
     input \in {"inB", "inExtra", "inVstruct"}, e \in ProbeConnections}
ProbeConns == SingleConns \cup PairConns \cup TwoInputConns

\* The nodes "/N" converted: every identifier with every parameter and no
\* connection, and two identifiers with a few parameters and every choice
\* of connections.
NodeInput(typeId, name, k, conns) ==
  \/ conns = NoConnections
  \/ /\ typeId \in {"PxrSurface", "PxrDomeLight"}
     /\ IF k = 0 THEN TRUE
        ELSE name \in {"inA", "inStruct"} /\ ProbeValues[k].held \in {"GfVec3f", "bool"}

\* The contexts a registry entry may have.
Contexts ==
  {"bxdf", "surface", "volume", "pattern", "OSL", "displacement", "light",
   "lightFilter", "gadget", ""}

NodeInit ==
  /\ \E typeId \in NodeTypeIds, name \in InputNames, k \in 0..Len(ProbeValues),
        conns \in ProbeConns \cup {NoConnections} :
       /\ NodeInput(typeId, name, k, conns)
       /\ materialNetwork = [nodes |-> ProbeBody(typeId, ProbeParameters(name, k), conns),
                             terminals |-> NoTerminals]
  /\ rootPath = ProbePath
  /\ nodes = << >>
  /\ flag = FALSE
  /\ visited = {}
  /\ pc = "idle"
  /\ history = << >>
  /\ classified = NoClassification
  /\ materialId = InvalidId
  /\ displacementId = InvalidId
  /\ dirtyBits = AllDirty
  /\ riley = NoRiley
  /\ calls = << >>
  /\ errors = << >>
  /\ last = NoHandler
  /\ OitIdle

\* The classification step of _ConvertNodes on its own: the node's
\* identifier with a registry entry of any context.
Classify ==
  /\ pc = "idle"
  /\ \E context \in Contexts :
       LET nodeTypeId == materialNetwork.nodes[rootPath].nodeTypeId
       IN classified' = [context |-> context, nodeTypeId |-> nodeTypeId,
                         type |-> ShadingNodeType(context, nodeTypeId)]
  /\ pc' = "classified"
  /\ UNCHANGED <<materialNetwork, rootPath, nodes, flag, visited, history, syncVars, oitVars>>

NodeNext == Convert \/ Classify

NodeSpec == NodeInit /\ [][NodeNext]_vars

(***************************************************************************)
(* Vocabulary of the properties.                                           *)
(***************************************************************************)
Handles(res) == {res[i].handle : i \in 1..Len(res)}
Positions(res, p) == {i \in 1..Len(res) : res[i].handle = p}

\* The paths a node has an input connection to.
Upstreams(net, p) ==
  IF p \in DOMAIN net.nodes
  THEN {e.upstreamNode : e \in {FlatConnections(net.nodes[p], 1)[k] :
                                  k \in 1..Len(FlatConnections(net.nodes[p], 1))}}
  ELSE {}

RECURSIVE ReachFrom(_, _)
ReachFrom(net, S) ==
  LET more == S \cup UNION {Upstreams(net, p) : p \in S}
  IN IF more = S THEN S ELSE ReachFrom(net, more)

Acyclic(net) == \A p \in DOMAIN net.nodes : p \notin ReachFrom(net, Upstreams(net, p))

\* A node the converter can emit: it is in the network, the registry knows
\* its shader, the shader's context is one of the known ones and its
\* implementation resolves.
Convertible(net, p) ==
  /\ p \in DOMAIN net.nodes
  /\ net.nodes[p].nodeTypeId \in ShaderIds
  /\ SdrRegistry[net.nodes[p].nodeTypeId].context \in
       {"bxdf", "surface", "volume", "pattern", "OSL", "displacement", "light", "lightFilter"}
  /\ SdrRegistry[net.nodes[p].nodeTypeId].uri # ""

IsReference(param) ==
  param.type \in {"colorRef", "vectorRef", "pointRef", "normalRef", "floatRef",
                  "integerRef", "stringRef", "structRef"}

(***************************************************************************)
(* C1.  For an acyclic materialNetwork, in the list one conversion call produces   *)
(* every node comes after all of its upstream dependencies: each upstream  *)
(* node that can be converted is in the list, and each upstream node that  *)
(* is in the list stands at an earlier position.                           *)
(***************************************************************************)
C1_TopologicalOrder ==
  (pc = "converted" /\ Acyclic(materialNetwork)) =>
    \A i \in 1..Len(nodes) :
      \A u \in Upstreams(materialNetwork, nodes[i].handle) :
        /\ Convertible(materialNetwork, u) => u \in Handles(nodes)
        /\ \A j \in Positions(nodes, u) : j < i

C1_Witness ==
  /\ pc = "converted"
  /\ Acyclic(materialNetwork)
  /\ \E i, j, k \in 1..Len(nodes) :
       /\ nodes[j].handle \in Upstreams(materialNetwork, nodes[i].handle)
       /\ nodes[k].handle \in Upstreams(materialNetwork, nodes[j].handle)
       /\ nodes[k].handle \in Upstreams(materialNetwork, nodes[i].handle)

(***************************************************************************)
(* C2.  No node handle occurs twice in the list of one conversion call; a  *)
(* node reached over two connection paths stands once, where its first     *)
(* visit put it: before every node of the list that connects to it.        *)
(***************************************************************************)
C2_Dedup ==
  pc = "converted" =>
    /\ \A i, j \in 1..Len(nodes) : nodes[i].handle = nodes[j].handle => i = j
    /\ Acyclic(materialNetwork) =>
         \A i, j \in 1..Len(nodes) :
           nodes[i].handle \in Upstreams(materialNetwork, nodes[j].handle) => i < j

C2_Witness ==
  /\ pc = "converted"
  /\ \E i, j, k \in 1..Len(nodes) :
       /\ j # k
       /\ nodes[i].handle \in Upstreams(materialNetwork, nodes[j].handle)
       /\ nodes[i].handle \in Upstreams(materialNetwork, nodes[k].handle)
       /\ Cardinality(Positions(nodes, nodes[i].handle)) = 1

(***************************************************************************)
(* C3.  A connection to a path that is not in the node mapping is left     *)
(* out, and nothing else changes: the call returns the list and the flag   *)
(* it returns for the network without the dangling connections, a root     *)
(* that can be converted still succeeds, and no reference names a missing  *)
(* node.                                                                   *)
(***************************************************************************)
Dangling(net) ==
  {p \in DOMAIN net.nodes : \E u \in Upstreams(net, p) : u \notin DOMAIN net.nodes}

PruneNode(net, node) ==
  LET kept(i) == SelectSeq(node.inputConnections[i],
                           LAMBDA e : e.upstreamNode \in DOMAIN net.nodes)
      inputs == {i \in DOMAIN node.inputConnections : kept(i) # << >>}
  IN [node EXCEPT !.inputConnections = [i \in inputs |-> kept(i)]]

Prune(net) == [net EXCEPT !.nodes = [p \in DOMAIN net.nodes |-> PruneNode(net, net.nodes[p])]]

C3_DanglingReference ==
  (pc = "converted" /\ Dangling(materialNetwork) # {}) =>
    LET r == HdPrman_ConvertHdMaterialNetwork2ToRmanNodes(Prune(materialNetwork), rootPath, << >>)
    IN /\ nodes = r.result
       /\ flag = r.ok
       /\ Convertible(materialNetwork, rootPath) => flag
       /\ \A i \in 1..Len(nodes) : \A k \in 1..Len(nodes[i].params) :
            IsReference(nodes[i].params[k]) =>
              nodes[i].params[k].value[1] \in DOMAIN materialNetwork.nodes

C3_Witness ==
  /\ pc = "converted"
  /\ flag
  /\ \E i \in 1..Len(nodes) :
       /\ nodes[i].handle \in Dangling(materialNetwork)
       /\ \E k \in 1..Len(nodes[i].params) : IsReference(nodes[i].params[k])
       /\ Len(nodes) >= 2

(***************************************************************************)
(* C8.  The flag of a conversion call is true exactly when the root node   *)
(* is emitted.  A node that fails is dropped alone: the list holds exactly *)
(* the nodes reachable from the root that can be converted.                *)
(***************************************************************************)
C8_FlagIsRootEmitted ==
  pc = "converted" =>
    /\ flag <=> rootPath \in Handles(nodes)
    /\ Handles(nodes) = {p \in ReachFrom(materialNetwork, {rootPath}) : Convertible(materialNetwork, p)}

\* The rootPath is emitted over a dropped node, which has an emitted node above it.
C8_Witness ==
  /\ pc = "converted"
  /\ flag
  /\ \E d \in Upstreams(materialNetwork, rootPath) :
       /\ d \in DOMAIN materialNetwork.nodes
       /\ ~Convertible(materialNetwork, d)
       /\ \E u \in Upstreams(materialNetwork, d) : u \in Handles(nodes) /\ u # rootPath

\* The rootPath is dropped and the flag is false, yet nodes were emitted.
C8_WitnessRootFails ==
  pc = "converted" /\ ~flag /\ nodes # << >>

SyncConverted == pc = "returned" /\ last.handler = "Sync" /\ last.isNetwork

Terminals == DOMAIN materialNetwork.terminals
RootOf(t) == materialNetwork.terminals[t].upstreamNode
MaterialTerminals == Terminals \cap {"surface", "volume"}
DisplacementTerminals == Terminals \cap {"displacement"}
\* The terminals whose conversion fails: the root is not emitted.
FailingTerminals == {t \in Terminals : ~Convertible(materialNetwork, RootOf(t))}

CategoryOf(op) ==
  IF op \in {"CreateMaterial", "ModifyMaterial", "DeleteMaterial"}
  THEN "material" ELSE "displacement"
IsCreate(op) == op \in {"CreateMaterial", "CreateDisplacement"}
IsModify(op) == op \in {"ModifyMaterial", "ModifyDisplacement"}
IsDelete(op) == op \in {"DeleteMaterial", "DeleteDisplacement"}
Commits == {k \in 1..Len(calls) : IsCreate(calls[k].op) \/ IsModify(calls[k].op)}
CommitsOf(category) == {k \in Commits : CategoryOf(calls[k].op) = category}

SetMax(S) == CHOOSE x \in S : \A y \in S : y <= x
EntryId(category) == IF category = "material" THEN last.materialId ELSE last.displacementId
\* The stored id of a category just before call k, read off the calls: the
\* id the latest earlier create of the category returned, else the id
\* Sync started with.
StoredBefore(k, category) ==
  LET creates == {j \in CommitsOf(category) : j < k /\ IsCreate(calls[j].op)}
  IN IF creates = {} THEN EntryId(category) ELSE calls[SetMax(creates)].id

(***************************************************************************)
(* C4.  A Sync that converts a network without a displacement terminal     *)
(* while a displacement id is stored calls DeleteDisplacement with that id *)
(* and leaves the stored id invalid; likewise DeleteMaterial for a network *)
(* with neither a surface nor a volume terminal.                           *)
(***************************************************************************)
C4_TerminalRemoval ==
  SyncConverted =>
    /\ (DisplacementTerminals = {} /\ last.displacementId # InvalidId) =>
         /\ \E k \in 1..Len(calls) :
              calls[k].op = "DeleteDisplacement" /\ calls[k].id = last.displacementId
         /\ displacementId = InvalidId
         /\ last.displacementId \notin riley.displacements
    /\ (MaterialTerminals = {} /\ last.materialId # InvalidId) =>
         /\ \E k \in 1..Len(calls) :
              calls[k].op = "DeleteMaterial" /\ calls[k].id = last.materialId
         /\ materialId = InvalidId
         /\ last.materialId \notin riley.materials

C4_Witness ==
  /\ SyncConverted
  /\ DisplacementTerminals = {}
  /\ last.displacementId # InvalidId
  /\ MaterialTerminals # {}
  /\ materialId # InvalidId

C4_WitnessMaterial ==
  /\ SyncConverted
  /\ MaterialTerminals = {}
  /\ last.materialId # InvalidId
  /\ displacementId # InvalidId

(***************************************************************************)
(* C5.  Every surface, volume or displacement terminal whose conversion    *)
(* succeeds is committed once, by a create when the stored id of its       *)
(* category is invalid at that moment and else by a modify of that stored  *)
(* id; a modify never targets the invalid id and leaves the stored id as   *)
(* it is.                                                                  *)
(***************************************************************************)
C5_CreateOrModify ==
  SyncConverted =>
    /\ \A t \in Terminals \ FailingTerminals :
         /\ Cardinality({k \in Commits : calls[k].terminal = t}) = 1
         /\ \A k \in Commits :
              calls[k].terminal = t =>
                CategoryOf(calls[k].op) =
                  (IF t = "displacement" THEN "displacement" ELSE "material")
    /\ \A k \in Commits :
         LET stored == StoredBefore(k, CategoryOf(calls[k].op))
         IN /\ IsCreate(calls[k].op) <=> stored = InvalidId
            /\ IsModify(calls[k].op) => calls[k].id = stored /\ calls[k].id # InvalidId
    /\ CommitsOf("material") # {} =>
         materialId = StoredBefore(Len(calls) + 1, "material")
    /\ CommitsOf("displacement") # {} =>
         displacementId = StoredBefore(Len(calls) + 1, "displacement")

\* One Sync creates the material for one terminal and modifies it for the
\* other, and modifies a displacement stored before.
C5_Witness ==
  /\ SyncConverted
  /\ \E j, k \in Commits :
       /\ j < k
       /\ calls[j].op = "CreateMaterial"
       /\ calls[k].op = "ModifyMaterial"
       /\ calls[k].id = calls[j].id
  /\ \E k \in Commits : calls[k].op = "ModifyDisplacement"

(***************************************************************************)
(* C6.  A terminal whose conversion fails gets no create and no modify,    *)
(* and the Sync does to Riley and to the stored ids what it does for the   *)
(* network without the failing terminals.                                  *)
(***************************************************************************)
WithoutFailing ==
  [materialNetwork EXCEPT
     !.terminals = [t \in Terminals \ FailingTerminals |-> materialNetwork.terminals[t]]]

C6_FailedTerminalSkipped ==
  (SyncConverted /\ FailingTerminals # {}) =>
    /\ \A k \in Commits : calls[k].terminal \notin FailingTerminals
    /\ LET st == _ConvertHdMaterialNetwork2ToRman(
                   Entry(last.materialId, last.displacementId, last.riley),
                   WithoutFailing,
                   SelectSeq(last.order, LAMBDA t : t \notin FailingTerminals),
                   [t \in Terminals \ FailingTerminals |-> last.created[t]])
       IN /\ calls = st.calls
          /\ materialId = st.materialId
          /\ displacementId = st.displacementId
          /\ riley = st.riley

\* A failing terminal is met first and a later terminal is committed.
C6_Witness ==
  /\ SyncConverted
  /\ last.order # << >>
  /\ last.order[1] \in FailingTerminals
  /\ \E k \in Commits : calls[k].terminal \in Terminals \ FailingTerminals

(***************************************************************************)
(* C7.  A stored material (displacement) is torn down by a Sync only when  *)
(* the network has no terminal of the material (displacement) category;    *)
(* when such a terminal is there and its conversion fails, the stored id   *)
(* stays valid and is not deleted.                                         *)
(***************************************************************************)
C7_TeardownOnlyWhenTerminalAbsent ==
  SyncConverted =>
    /\ (\E k \in 1..Len(calls) : calls[k].op = "DeleteMaterial" /\ calls[k].id # InvalidId)
         => MaterialTerminals = {}
    /\ (\E k \in 1..Len(calls) : calls[k].op = "DeleteDisplacement" /\ calls[k].id # InvalidId)
         => DisplacementTerminals = {}
    /\ (MaterialTerminals # {} /\ MaterialTerminals \subseteq FailingTerminals
        /\ last.materialId # InvalidId)
         => materialId = last.materialId /\ materialId \in riley.materials
    /\ (DisplacementTerminals # {} /\ DisplacementTerminals \subseteq FailingTerminals
        /\ last.displacementId # InvalidId)
         => displacementId = last.displacementId /\ displacementId \in riley.displacements

(***************************************************************************)
(* C9.  The node list committed for a terminal holds exactly the nodes     *)
(* reachable from that terminal's root that can be converted, each once,   *)
(* whatever was converted for the terminals before it.                     *)
(***************************************************************************)
C9_PerTerminalList ==
  SyncConverted =>
    \A k \in Commits :
      /\ Handles(calls[k].nodes) =
           {p \in ReachFrom(materialNetwork, {RootOf(calls[k].terminal)}) :
              Convertible(materialNetwork, p)}
      /\ Len(calls[k].nodes) = Cardinality(Handles(calls[k].nodes))

\* The texture both sub-graphs read is committed with the surface and,
\* after it, with the displacement.
C9_Witness ==
  /\ SyncConverted
  /\ \E j, k \in Commits :
       /\ j < k
       /\ calls[j].terminal = "surface"
       /\ calls[k].terminal = "displacement"
       /\ "/Tex" \in Handles(calls[j].nodes)
       /\ "/Tex" \in Handles(calls[k].nodes)

\* The same with the displacement converted first.
C9_WitnessReverse ==
  /\ SyncConverted
  /\ \E j, k \in Commits :
       /\ j < k
       /\ calls[j].terminal = "displacement"
       /\ calls[k].terminal = "surface"
       /\ "/Tex" \in Handles(calls[j].nodes)
       /\ "/Tex" \in Handles(calls[k].nodes)

(***************************************************************************)
(* Vocabulary of the properties of one converted node.                     *)
(***************************************************************************)
RootNode == materialNetwork.nodes[rootPath]
RootEmitted == rootPath \in Handles(nodes)
EmittedAt(res, p) == res[CHOOSE i \in 1..Len(res) : res[i].handle = p]
ParamsNamed(sn, name) == {k \in 1..Len(sn.params) : sn.params[k].name = name}
DropAt(seq, k) == [i \in 1..(Len(seq) - 1) |-> IF i < k THEN seq[i] ELSE seq[i + 1]]

\* The network with parameter n of node p not authored.
WithoutParameter(net, p, n) ==
  [net EXCEPT !.nodes[p].parameters =
     [m \in (DOMAIN net.nodes[p].parameters) \ {n} |-> net.nodes[p].parameters[m]]]

\* The network with the k-th connection on an input of node p not authored.
WithoutConnection(net, p, input, k) ==
  [net EXCEPT !.nodes[p].inputConnections[input] = DropAt(@, k)]

(***************************************************************************)
(* C11.  A parameter authored on a struct- or vstruct-typed input sets no  *)
(* parameter of its node, whatever type of value it holds (the only entry  *)
(* that may carry the input's name is the reference of a connection), and  *)
(* the node is converted as if the parameter had not been authored: a      *)
(* convertible root is emitted and the call succeeds, with the list and    *)
(* the flag of the network without that parameter.                         *)
(***************************************************************************)
C11_StructDrop ==
  pc = "converted" =>
    \A p \in DOMAIN materialNetwork.nodes :
      LET node == materialNetwork.nodes[p]
      IN HasShaderNode(node.nodeTypeId) =>
           LET sdrEntry == GetShaderNodeByIdentifier(node.nodeTypeId)
           IN \A n \in DOMAIN node.parameters :
                (HasShaderInput(sdrEntry, n)
                   /\ GetShaderInput(sdrEntry, n).type \in {"struct", "vstruct"}) =>
                  /\ \A i \in Positions(nodes, p) :
                       \A k \in ParamsNamed(nodes[i], GetShaderInput(sdrEntry, n).implName) :
                         IsReference(nodes[i].params[k])
                  /\ (p = rootPath /\ Convertible(materialNetwork, p)) =>
                       flag /\ RootEmitted
                  /\ LET r == HdPrman_ConvertHdMaterialNetwork2ToRmanNodes(
                                WithoutParameter(materialNetwork, p, n), rootPath, << >>)
                     IN nodes = r.result /\ flag = r.ok

\* A bool, which any other input would take as an integer, is authored on
\* the struct input of an emitted node that has another parameter.
C11_Witness ==
  /\ pc = "converted"
  /\ RootEmitted
  /\ flag
  /\ "inStruct" \in DOMAIN RootNode.parameters
  /\ RootNode.parameters["inStruct"].held = "bool"
  /\ ParamsNamed(EmittedAt(nodes, rootPath), "inB_impl") # {}
  /\ ParamsNamed(EmittedAt(nodes, rootPath), "inStruct") = {}

(***************************************************************************)
(* C12.  On the int input whose option table is ("low","0"), ("med","1"),  *)
(* ("high","2"), a string or token value "2" sets the integer parameter 2, *)
(* and a value that is in no entry of the table sets no parameter while    *)
(* the node is still emitted.                                              *)
(***************************************************************************)
C12_EnumResolution ==
  (pc = "converted"
     /\ Convertible(materialNetwork, rootPath)
     /\ "inInt" \in DOMAIN RootNode.parameters
     /\ RootNode.parameters["inInt"].held \in {"TfToken", "std::string"}) =>
    LET v == RootNode.parameters["inInt"].v
        prop == GetShaderInput(GetShaderNodeByIdentifier(RootNode.nodeTypeId), "inInt")
        sn == EmittedAt(nodes, rootPath)
        named == ParamsNamed(sn, prop.implName)
    IN /\ RootEmitted
       /\ prop.type = "int"
       /\ v = "2" => \E k \in named : sn.params[k].type = "integer" /\ sn.params[k].value = 2
       /\ (\A j \in 1..Len(prop.options) : v # prop.options[j][1] /\ v # prop.options[j][2]) =>
            named = {}

(***************************************************************************)
(* C13.  Classification: contexts bxdf, surface and volume give Bxdf;      *)
(* pattern and OSL give Pattern, or Displacement when the identifier is    *)
(* PxrDisplace; displacement gives Displacement, light Light, lightFilter  *)
(* LightFilter, whatever the identifier; any other context gives no        *)
(* category.  Every emitted node carries the category of its registry      *)
(* context, and a root whose context is none of these is not emitted.      *)
(***************************************************************************)
C13_Classification ==
  /\ pc = "classified" =>
       LET c == classified.context
           id == classified.nodeTypeId
           t == classified.type
       IN /\ c \in {"bxdf", "surface", "volume"} => t = "k_Bxdf"
          /\ (c \in {"pattern", "OSL"} /\ id = "PxrDisplace") => t = "k_Displacement"
          /\ (c \in {"pattern", "OSL"} /\ id # "PxrDisplace") => t = "k_Pattern"
          /\ c = "displacement" => t = "k_Displacement"
          /\ c = "light" => t = "k_Light"
          /\ c = "lightFilter" => t = "k_LightFilter"
          /\ c \notin {"bxdf", "surface", "volume", "pattern", "OSL", "displacement",
                       "light", "lightFilter"} => t = "none"
  /\ pc = "converted" =>
       /\ \A i \in 1..Len(nodes) :
            LET id == materialNetwork.nodes[nodes[i].handle].nodeTypeId
                c == GetShaderNodeByIdentifier(id).context
            IN nodes[i].type =
                 CASE c \in {"bxdf", "surface", "volume"} -> "k_Bxdf"
                   [] c \in {"pattern", "OSL"} /\ id = "PxrDisplace" -> "k_Displacement"
                   [] c \in {"pattern", "OSL"} /\ id # "PxrDisplace" -> "k_Pattern"
                   [] c = "displacement" -> "k_Displacement"
                   [] c = "light" -> "k_Light"
                   [] c = "lightFilter" -> "k_LightFilter"
       /\ (HasShaderNode(RootNode.nodeTypeId)
             /\ GetShaderNodeByIdentifier(RootNode.nodeTypeId).context \notin
                  {"bxdf", "surface", "volume", "pattern", "OSL", "displacement",
                   "light", "lightFilter"}) =>
            ~flag /\ ~RootEmitted

\* PxrDisplace has been classified in the bxdf context.
C13_Witness ==
  /\ pc = "classified"
  /\ classified.nodeTypeId = "PxrDisplace"
  /\ classified.context = "bxdf"
  /\ classified.type = "k_Bxdf"

\* The OSL shader PxrDisplace has been emitted as a displacement.
C13_WitnessEmitted ==
  /\ pc = "converted"
  /\ RootEmitted
  /\ RootNode.nodeTypeId = "PxrDisplace"
  /\ EmittedAt(nodes, rootPath).type = "k_Displacement"

(***************************************************************************)
(* C14 as stated.  An emitted Displacement, Light or LightFilter node is   *)
(* named by the descriptor's implementation name and an emitted node of    *)
(* any other category by the resolved implementation path; the resolved    *)
(* path plays no part in what is emitted for a Displacement, Light or      *)
(* LightFilter node, so such a root is emitted whatever its path is.       *)
(***************************************************************************)
NamedByRenderer == {"k_Displacement", "k_Light", "k_LightFilter"}

NameRule(sn) ==
  LET sdrEntry == GetShaderNodeByIdentifier(materialNetwork.nodes[sn.handle].nodeTypeId)
  IN IF sn.type \in NamedByRenderer
     THEN sn.name = sdrEntry.implName /\ sn.name # sdrEntry.uri
     ELSE sn.name = sdrEntry.uri

RootNamedByRenderer ==
  /\ HasShaderNode(RootNode.nodeTypeId)
  /\ ShadingNodeType(GetShaderNodeByIdentifier(RootNode.nodeTypeId).context,
                     RootNode.nodeTypeId) \in NamedByRenderer

C14_PathPlaysNoPart ==
  pc = "converted" =>
    /\ \A i \in 1..Len(nodes) : NameRule(nodes[i])
    /\ RootNamedByRenderer => RootEmitted

(***************************************************************************)
(* C14, amended.  The naming rule as above; the resolved path of a         *)
(* Displacement, Light or LightFilter node does not appear in the emitted  *)
(* node, but it decides whether the node is emitted at all: a node of any  *)
(* category is emitted only if its resolved path is not empty.             *)
(***************************************************************************)
C14_ShaderName ==
  pc = "converted" =>
    /\ \A i \in 1..Len(nodes) :
         /\ NameRule(nodes[i])
         /\ GetShaderNodeByIdentifier(materialNetwork.nodes[nodes[i].handle].nodeTypeId).uri # ""
    /\ RootNamedByRenderer =>
         (RootEmitted <=> GetShaderNodeByIdentifier(RootNode.nodeTypeId).uri # "")

\* A light whose implementation resolves has been emitted under its name.
C14_Witness ==
  /\ pc = "converted"
  /\ RootEmitted
  /\ RootNode.nodeTypeId = "PxrDomeLight"
  /\ EmittedAt(nodes, rootPath).type = "k_Light"
  /\ EmittedAt(nodes, rootPath).name = "PxrDomeLight"

\* A light whose implementation does not resolve has been dropped.
C14_WitnessDropped ==
  /\ pc = "converted"
  /\ RootNode.nodeTypeId = "NoImplLight"
  /\ ~RootEmitted
  /\ ~flag

(***************************************************************************)
(* C15.  For every connection authored on an emitted node: when the        *)
(* upstream node, its registry entry, the downstream input and the         *)
(* upstream output all exist and the input's type takes a reference, the   *)
(* node has exactly one parameter of the input's implementation name, and  *)
(* it is the reference of the input's type to "<upstream path>:<upstream   *)
(* output implementation name>"; otherwise the node's parameters are those *)
(* of the node without that connection.                                    *)
(***************************************************************************)
ReferenceTypes == {"color", "vector", "point", "normal", "float", "int", "string", "struct"}

C15_ConnectionConversion ==
  pc = "converted" =>
    \A i \in 1..Len(nodes) :
      LET p == nodes[i].handle
          node == materialNetwork.nodes[p]
          sdrEntry == GetShaderNodeByIdentifier(node.nodeTypeId)
      IN \A input \in DOMAIN node.inputConnections :
           \A k \in 1..Len(node.inputConnections[input]) :
             LET e == node.inputConnections[input][k]
                 resolved ==
                   /\ e.upstreamNode \in DOMAIN materialNetwork.nodes
                   /\ HasShaderNode(materialNetwork.nodes[e.upstreamNode].nodeTypeId)
                   /\ HasShaderInput(sdrEntry, input)
                   /\ HasShaderOutput(
                        GetShaderNodeByIdentifier(
                          materialNetwork.nodes[e.upstreamNode].nodeTypeId),
                        e.upstreamOutputName)
                   /\ GetShaderInput(sdrEntry, input).type \in ReferenceTypes
             IN IF resolved
                THEN LET prop == GetShaderInput(sdrEntry, input)
                         out == GetShaderOutput(
                                  GetShaderNodeByIdentifier(
                                    materialNetwork.nodes[e.upstreamNode].nodeTypeId),
                                  e.upstreamOutputName)
                         named == ParamsNamed(nodes[i], prop.implName)
                     IN /\ Cardinality(named) = 1
                        /\ \A m \in named :
                             /\ nodes[i].params[m].type = ReferenceType(prop.type)
                             /\ nodes[i].params[m].value =
                                  <<e.upstreamNode, ":", out.implName>>
                ELSE LET r == HdPrman_ConvertHdMaterialNetwork2ToRmanNodes(
                                WithoutConnection(materialNetwork, p, input, k),
                                rootPath, << >>)
                     IN /\ p \in Handles(r.result)
                        /\ nodes[i].params = EmittedAt(r.result, p).params

(***************************************************************************)
(* C19.  In the list converted from an acyclic network every reference     *)
(* parameter "handle:output" names the handle of a node that stands        *)
(* earlier in the list; no emitted node refers to a node that was dropped. *)
(***************************************************************************)
C19_ReferencesResolve ==
  (pc = "converted" /\ Acyclic(materialNetwork)) =>
    \A i \in 1..Len(nodes) :
      \A k \in 1..Len(nodes[i].params) :
        IsReference(nodes[i].params[k]) =>
          \E j \in 1..(i - 1) : nodes[j].handle = nodes[i].params[k].value[1]

(***************************************************************************)
(* Vocabulary of the properties of the calls of one handler.               *)
(***************************************************************************)
Other(category) == IF category = "material" THEN "displacement" ELSE "material"
StoredNow(category) == IF category = "material" THEN materialId ELSE displacementId
FailedCreates == {k \in 1..Len(calls) : IsCreate(calls[k].op) /\ calls[k].id = InvalidId}
ErrorFor(category) ==
  IF category = "material" THEN "Failed to create material"
  ELSE "Failed to create displacement"

\* The calls of a category without their ids.
ShapesOf(cs, category) ==
  LET sel == SelectSeq(cs, LAMBDA c : CategoryOf(c.op) = category)
  IN [i \in 1..Len(sel) |->
        [op |-> sel[i].op, terminal |-> sel[i].terminal, nodes |-> sel[i].nodes]]

\* The ids of a category that are live in Riley just before call k.
LiveBefore(k, category) ==
  LET initial == IF category = "material" THEN last.riley.materials
                 ELSE last.riley.displacements
      made == {calls[j].id : j \in {j \in 1..(k - 1) :
                 IsCreate(calls[j].op) /\ CategoryOf(calls[j].op) = category
                   /\ calls[j].id # InvalidId}}
      gone == {calls[j].id : j \in {j \in 1..(k - 1) :
                 IsDelete(calls[j].op) /\ CategoryOf(calls[j].op) = category}}
  IN (initial \cup made) \ gone

(***************************************************************************)
(* C16.  When a create returns the invalid id for a terminal, the error of *)
(* that terminal's category is reported for it; the stored id stays        *)
(* invalid (the next commit of the category in the same Sync is a create   *)
(* again, and without one the Sync ends with the id invalid); every        *)
(* terminal that converts is still committed; and the other category sees  *)
(* nothing of the failure: its calls and the validity of its stored id are *)
(* those of the same Sync with that create succeeding.                     *)
(***************************************************************************)
C16_CreateFailure ==
  SyncConverted =>
    \A k \in FailedCreates :
      LET category == CategoryOf(calls[k].op)
          t == calls[k].terminal
          later == {j \in CommitsOf(category) : j > k}
          alt == _ConvertHdMaterialNetwork2ToRman(
                   Entry(last.materialId, last.displacementId, last.riley),
                   materialNetwork, last.order, [last.created EXCEPT ![t] = TRUE])
          altOther == IF category = "material" THEN alt.displacementId ELSE alt.materialId
      IN /\ \E e \in 1..Len(errors) :
              errors[e] = [what |-> ErrorFor(category), terminal |-> t]
         /\ \A j \in later : (\A i \in later : j <= i) => IsCreate(calls[j].op)
         /\ later = {} => StoredNow(category) = InvalidId
         /\ \A u \in Terminals \ FailingTerminals : \E j \in Commits : calls[j].terminal = u
         /\ ShapesOf(calls, Other(category)) = ShapesOf(alt.calls, Other(category))
         /\ (StoredNow(Other(category)) = InvalidId) <=> (altOther = InvalidId)

\* The create of the displacement fails and the surface terminal, met
\* after it, gets its material.
C16_Witness ==
  /\ SyncConverted
  /\ \E k \in FailedCreates, j \in Commits :
       /\ k < j
       /\ calls[k].terminal = "displacement"
       /\ calls[j].op = "CreateMaterial"
       /\ calls[j].id # InvalidId
  /\ displacementId = InvalidId
  /\ materialId # InvalidId
  /\ Len(errors) = 1

(***************************************************************************)
(* C17.  The ids Riley holds live are the valid ones among the two stored  *)
(* ids; a delete of a valid id and a modify are only issued for an id that *)
(* is live at that moment; IsValid() says that a live material exists; and *)
(* Finalize leaves both stored ids invalid.                                *)
(***************************************************************************)
C17_LiveIdsAreStoredIds ==
  /\ riley.materials = {materialId} \ {InvalidId}
  /\ riley.displacements = {displacementId} \ {InvalidId}
  /\ IsValid <=> riley.materials # {}
  /\ pc = "returned" =>
       \A k \in 1..Len(calls) :
         /\ (IsDelete(calls[k].op) /\ calls[k].id # InvalidId) =>
              calls[k].id \in LiveBefore(k, CategoryOf(calls[k].op))
         /\ IsModify(calls[k].op) =>
              calls[k].id \in LiveBefore(k, CategoryOf(calls[k].op))
         /\ (IsCreate(calls[k].op) /\ calls[k].id # InvalidId) =>
              LiveBefore(k, CategoryOf(calls[k].op)) = {}
  /\ (pc = "returned" /\ last.handler = "Finalize") =>
       materialId = InvalidId /\ displacementId = InvalidId

\* Finalize has deleted a material and a displacement.
C17_Witness ==
  /\ pc = "returned"
  /\ last.handler = "Finalize"
  /\ last.materialId # InvalidId
  /\ last.displacementId # InvalidId
  /\ Len(calls) = 2
  /\ riley.materials = {}
  /\ riley.displacements = {}

(***************************************************************************)
(* C18.  No DeleteMaterial and no DeleteDisplacement call is passed the    *)
(* invalid id.                                                             *)
(***************************************************************************)
C18_NoDeleteOfInvalidId ==
  \A k \in 1..Len(calls) : IsDelete(calls[k].op) => calls[k].id # InvalidId

(***************************************************************************)
(* C20.  The node list of every create and modify call is not empty, ends  *)
(* with the node of the terminal's root path and holds nothing of an       *)
(* earlier terminal: it is the list a conversion of that terminal into an  *)
(* empty vector gives.                                                     *)
(***************************************************************************)
C20_CommitList ==
  SyncConverted =>
    \A k \in Commits :
      /\ calls[k].nodes # << >>
      /\ calls[k].nodes[Len(calls[k].nodes)].handle = RootOf(calls[k].terminal)
      /\ calls[k].nodes =
           HdPrman_ConvertHdMaterialNetwork2ToRmanNodes(
             materialNetwork, RootOf(calls[k].terminal), << >>).result

\* Three terminals are committed one after the other, each with the
\* texture and its own root.
C20_Witness ==
  /\ SyncConverted
  /\ Cardinality(Commits) = 3
  /\ \A k \in Commits :
       /\ Len(calls[k].nodes) = 2
       /\ calls[k].nodes[1].handle = "/Tex"
       /\ calls[k].nodes[2].handle = RootOf(calls[k].terminal)

(***************************************************************************)
(* C21.  A Sync with DirtyResource or DirtyParams set whose material       *)
(* resource holds no network issues one delete for each valid stored id,   *)
(* nothing else, and leaves both stored ids invalid; a Sync with neither   *)
(* bit set issues no call and leaves the stored ids and Riley as they      *)
(* were; every Sync leaves the dirty bits clean.                           *)
(***************************************************************************)
SyncReturned == pc = "returned" /\ last.handler = "Sync"

ExpectedDeletes ==
  (IF last.materialId # InvalidId
   THEN <<Call("DeleteMaterial", "", last.materialId, << >>)>> ELSE << >>) \o
  (IF last.displacementId # InvalidId
   THEN <<Call("DeleteDisplacement", "", last.displacementId, << >>)>> ELSE << >>)

C21_SyncOutcomes ==
  SyncReturned =>
    /\ dirtyBits = {}
    /\ (("DirtyResource" \in last.bits \/ "DirtyParams" \in last.bits) /\ ~last.isNetwork) =>
         /\ calls = ExpectedDeletes
         /\ Commits = {}
         /\ materialId = InvalidId
         /\ displacementId = InvalidId
         /\ riley.materials = {}
         /\ riley.displacements = {}
    /\ ("DirtyResource" \notin last.bits /\ "DirtyParams" \notin last.bits) =>
         /\ calls = << >>
         /\ materialId = last.materialId
         /\ displacementId = last.displacementId
         /\ riley = last.riley

\* A dirty Sync that finds no network has deleted a material and a
\* displacement.
C21_Witness ==
  /\ SyncReturned
  /\ "DirtyResource" \in last.bits
  /\ ~last.isNetwork
  /\ last.materialId # InvalidId
  /\ last.displacementId # InvalidId
  /\ Len(calls) = 2

\* A Sync with neither bit set has returned with both ids still stored.
C21_WitnessClean ==
  /\ SyncReturned
  /\ last.bits = {"DirtyOther"}
  /\ materialId # InvalidId
  /\ displacementId # InvalidId
  /\ calls = << >>

(***************************************************************************)
(* C22.  After Execute, on every path, GL_MULTISAMPLE and GL_POINT_SMOOTH  *)
(* are enabled exactly if they were before it; the render pass runs, once, *)
(* on the full-render path only, with GL_MULTISAMPLE disabled and          *)
(* GL_POINT_SMOOTH enabled; with OIT disabled or without draw items        *)
(* Execute requests no OIT buffers and runs no render pass.                *)
(***************************************************************************)
ExecuteReturned == executed.path # "none"

C22_GLStateRestored ==
  ExecuteReturned =>
    /\ \A cap \in Capabilities : glIsEnabled(gl, cap) = glIsEnabled(executed.before, cap)
    /\ executed.path = "rendered" <=>
         (isOitEnabled /\ executed.hasDrawItems /\ executed.kind = "HdSt"
            /\ executed.bindings)
    /\ executed.path = "rendered" =>
         /\ Len(executed.passes) = 1
         /\ ~glIsEnabled(executed.passes[1], "GL_MULTISAMPLE")
         /\ glIsEnabled(executed.passes[1], "GL_POINT_SMOOTH")
    /\ executed.path # "rendered" => executed.passes = << >>
    /\ (~isOitEnabled \/ ~executed.hasDrawItems) =>
         /\ executed.path = "skipped"
         /\ executed.requests = 0
         /\ ~executed.initialized
         /\ executed.passes = << >>

\* A full render from a context with multisampling on and point smoothing
\* off: both capabilities were flipped for the pass and are back.
C22_Witness ==
  /\ executed.path = "rendered"
  /\ glIsEnabled(executed.before, "GL_MULTISAMPLE")
  /\ ~glIsEnabled(executed.before, "GL_POINT_SMOOTH")
  /\ glIsEnabled(gl, "GL_MULTISAMPLE")
  /\ ~glIsEnabled(gl, "GL_POINT_SMOOTH")
  /\ Len(executed.passes) = 1

\* Execute returned early for want of OIT buffer bindings.
C22_WitnessNoBuffers ==
  /\ executed.path = "noOitBuffers"
  /\ executed.requests = 1
  /\ executed.passes = << >>

====
